---------------------------- MODULE Spec2Model ----------------------------
(***************************************************************************)
(* A model of src/bot.py: the chess bot's move selector (Bot.next_move),   *)
(* its recursive variable-depth search and static evaluator                *)
(* (Bot.eval_position) and its legality query (Bot.check_move_is_legal).   *)
(*                                                                         *)
(* The rules engine (the python-chess Board the bot calls) is the          *)
(* environment.  It is modelled as an arena: a finite graph of positions,  *)
(* each with a side to move, a piece layout and a list of legal moves      *)
(* leading to positions of the other side.  The recursion of eval_position *)
(* is an explicit stack of activation records, one action per step.        *)
(*                                                                         *)
(* Units: depths are counted in halves (4.5 is 9); material and scores are *)
(* counted in hundredths (a pawn is 100, checkmate is 10000), and np.sqrt  *)
(* is the square root rounded down to a hundredth.                         *)
(***************************************************************************)
EXTENDS Integers, Sequences, FiniteSets, TLC

VARIABLES
    layout,     \* rules engine: position id -> piece layout (first FEN field)
    legal,      \* rules engine: position id -> sequence of legal moves
    rootFen,    \* the FEN fields of self.board after the layout
    heap,       \* the Board objects alive: object id -> position id
    nextId,     \* the next fresh object id
    stack,      \* the activation records of eval_position, innermost last
    nm,         \* the activation record of next_move
    query,      \* the activation record of check_move_is_legal
    result,     \* what the outermost call returned
    log         \* history: the calls of eval_position made by next_move

vars == <<layout, legal, rootFen, heap, nextId, stack, nm, query, result, log>>

WHITE == TRUE
BLACK == FALSE
None == [kind |-> "none"]
Returned(v) == [kind |-> "return", value |-> v]
Raised(e) == [kind |-> "raise", value |-> e]

-----------------------------------------------------------------------------
(* Sequences and arithmetic *)

Range(s) == {s[i] : i \in DOMAIN s}

RECURSIVE Concat(_)
Concat(ss) == IF ss = <<>> THEN <<>> ELSE Head(ss) \o Concat(Tail(ss))

RECURSIVE SeqMax(_)
SeqMax(s) ==
    IF Len(s) = 1 THEN s[1]
    ELSE LET m == SeqMax(Tail(s)) IN IF s[1] >= m THEN s[1] ELSE m

RECURSIVE SeqMin(_)
SeqMin(s) ==
    IF Len(s) = 1 THEN s[1]
    ELSE LET m == SeqMin(Tail(s)) IN IF s[1] <= m THEN s[1] ELSE m

RECURSIVE SqrtSearch(_, _, _)
SqrtSearch(n, lo, hi) ==
    IF lo = hi THEN lo
    ELSE LET mid == (lo + hi + 1) \div 2
         IN  IF mid * mid <= n THEN SqrtSearch(n, mid, hi)
                               ELSE SqrtSearch(n, lo, mid - 1)

\* np.sqrt of a quantity in hundredths, in hundredths, rounded down.
NpSqrt(x) == SqrtSearch(100 * x, 0, IF 100 * x < 46340 THEN 100 * x ELSE 46340)

-----------------------------------------------------------------------------
(* The static evaluator: eval_position, lines 126-152 *)

PieceSymbols == {"P", "N", "B", "R", "Q", "p", "n", "b", "r", "q"}

piece_values(c) ==
    CASE c = "P" -> 1  [] c = "N" -> 3  [] c = "B" -> 3
      [] c = "R" -> 5  [] c = "Q" -> 9
      [] c = "p" -> -1 [] c = "n" -> -3 [] c = "b" -> -3
      [] c = "r" -> -5 [] c = "q" -> -9

\* The test that guards the pawn bonus in the Black branch (line 144).
BlackPawnTest(v) == v = 1

\* One character of the layout: the accumulators and the rank after it.
ScanStep(acc, c) ==
    LET v == IF c \in PieceSymbols THEN piece_values(c) ELSE 0
        a == IF c \notin PieceSymbols THEN acc
             ELSE IF v > 0
                  THEN [acc EXCEPT !.white = @ + 100 * v +
                            (IF v = 1 THEN 10 * acc.rank - 45 ELSE 0)]
                  ELSE [acc EXCEPT !.black = @ - 100 * v +
                            (IF BlackPawnTest(v) THEN 45 - 10 * acc.rank ELSE 0)]
    IN  IF c = "/" THEN [a EXCEPT !.rank = @ - 1] ELSE a

\* The loop over the characters lo..hi of the board, in order, from the
\* accumulators acc: the first half of them, then the second.
RECURSIVE Scan(_, _, _, _)
Scan(board, lo, hi, acc) ==
    IF lo > hi THEN acc
    ELSE IF lo = hi THEN ScanStep(acc, board[lo])
    ELSE LET mid == (lo + hi) \div 2
         IN  CHOOSE done \in {Scan(board, mid + 1, hi, half) :
                                half \in {Scan(board, lo, mid, acc)}} : TRUE

Material(board) ==
    Scan(board, 1, Len(board), [white |-> 0, black |-> 0, rank |-> 8])

StaticEval(board) ==
    LET m == Material(board) IN NpSqrt(m.white) - NpSqrt(m.black)

-----------------------------------------------------------------------------
(* The rules engine, as far as the bot calls it *)

\* Piece layouts (the first FEN field), one character per element.
JoinRows(rows) ==
    Concat([i \in 1..Len(rows) |->
              IF i < Len(rows) THEN rows[i] \o <<"/">> ELSE rows[i]])

E8 == <<"8">>
StartLayout ==
    JoinRows(<< <<"r","n","b","q","k","b","n","r">>,
                <<"p","p","p","p","p","p","p","p">>, E8, E8, E8, E8,
                <<"P","P","P","P","P","P","P","P">>,
                <<"R","N","B","Q","K","B","N","R">> >>)
KingsPawnLayout ==
    JoinRows(<< <<"r","n","b","q","k","b","n","r">>,
                <<"p","p","p","p","p","p","p","p">>, E8, E8,
                <<"4","P","3">>, E8,
                <<"P","P","P","P","1","P","P","P">>,
                <<"R","N","B","Q","K","B","N","R">> >>)
QueensPawnLayout ==
    JoinRows(<< <<"r","n","b","q","k","b","n","r">>,
                <<"p","p","p","p","p","p","p","p">>, E8, E8,
                <<"3","P","4">>, E8,
                <<"P","P","P","1","P","P","P","P">>,
                <<"R","N","B","Q","K","B","N","R">> >>)

\* The layouts of the arena's six positions.  Positions 1 and 2 are in check,
\* 3 and 4 are not, 5 and 6 hold the two kings alone.
ArenaLayout ==
    << JoinRows(<< <<"3","k","r","3">>, E8, <<"7","p">>, E8, E8, E8,
                   <<"P","7">>, <<"4","K","3">> >>),
       JoinRows(<< <<"4","k","3">>, <<"7","p">>, E8, E8, <<"P","7">>, E8,
                   E8, <<"3","K","R","3">> >>),
       JoinRows(<< <<"4","k","3">>, <<"7","p">>, E8, E8, E8, <<"P","7">>,
                   E8, <<"4","K","2","N">> >>),
       JoinRows(<< <<"n","3","k","3">>, E8, E8, <<"7","p">>, E8, E8,
                   <<"P","7">>, <<"4","K","3">> >>),
       JoinRows(<< <<"4","k","3">>, E8, E8, E8, E8, E8, E8, <<"4","K","3">> >>),
       JoinRows(<< <<"3","k","4">>, E8, E8, E8, E8, E8, E8, <<"3","K","4">> >>) >>

Positions == DOMAIN ArenaLayout

\* position.turn
Turn(p) == IF p % 2 = 1 THEN WHITE ELSE BLACK
Opponents(p) == {q \in Positions : Turn(q) # Turn(p)}

\* Whether the side to move is in check.
InCheck(p) == p \in {1, 2}

\* position.is_insufficient_material(): the cases of it the layouts reach,
\* no pawn, rook or queen and at most one minor piece on the board.
IsInsufficientMaterial(board) ==
    /\ \A i \in DOMAIN board : board[i] \notin {"P", "p", "R", "r", "Q", "q"}
    /\ Cardinality({i \in DOMAIN board : board[i] \in {"N", "n", "B", "b"}}) <= 1

\* Move.uci() of the arena's moves: a name per target and kind.
Files == <<"a", "b", "c", "d", "e", "f">>
MoveUci(to, capture) ==
    IF capture THEN <<Files[to], "2", Files[to], "4">>
               ELSE <<Files[to], "1", Files[to], "3">>

MoveTo(to, capture) == [uci |-> MoveUci(to, capture), to |-> to, capture |-> capture]

\* Every move the arena can hold from p, in the order legal_moves yields them.
\* A move onto bare kings takes the last piece, so it is a capture.
CandidateMoves(p) ==
    LET t == {q \in Opponents(p) : q <= 4}
        k == {q \in Opponents(p) : q > 4}
        step(q) == IF q \in t /\ p <= 4
                   THEN <<MoveTo(q, FALSE), MoveTo(q, TRUE)>>
                   ELSE IF q \in k /\ p <= 4 THEN <<MoveTo(q, TRUE)>>
                   ELSE IF q \in k THEN <<MoveTo(q, FALSE)>>
                   ELSE <<>>
    IN  Concat([q \in Positions |-> step(q)])

\* position.gives_check(move) and position.is_capture(move)
gives_check(move) == InCheck(move.to)
is_capture(move) == move.capture

is_checkmate(p) == InCheck(p) /\ legal[p] = <<>>
is_stalemate(p) == ~InCheck(p) /\ legal[p] = <<>>
is_insufficient_material(p) == IsInsufficientMaterial(layout[p])

\* position.fen(): the six fields.
Fen(p, rest) == <<layout[p], IF Turn(p) = WHITE THEN "w" ELSE "b">> \o rest

\* The squares of a layout: the rows from rank 8 down, digits spelt out as
\* that many empty squares.
DigitValue(c) ==
    CASE c = "1" -> 1 [] c = "2" -> 2 [] c = "3" -> 3 [] c = "4" -> 4
      [] c = "5" -> 5 [] c = "6" -> 6 [] c = "7" -> 7 [] c = "8" -> 8
      [] OTHER -> 0

\* The rows of a layout, the eighth rank first: row k lies between the
\* (k - 1)-th and the k-th "/".
Slashes(board) == {i \in DOMAIN board : board[i] = "/"}
SlashAt(board, k) ==
    IF k = 0 THEN 0
    ELSE IF k > Cardinality(Slashes(board)) THEN Len(board) + 1
    ELSE CHOOSE i \in Slashes(board) :
             Cardinality({j \in Slashes(board) : j < i}) = k - 1
SplitRows(board) ==
    [k \in 1..(Cardinality(Slashes(board)) + 1) |->
        SubSeq(board, SlashAt(board, k - 1) + 1, SlashAt(board, k) - 1)]

RECURSIVE ExpandRow(_)
ExpandRow(row) ==
    IF row = <<>> THEN <<>>
    ELSE (IF DigitValue(Head(row)) > 0
          THEN [i \in 1..DigitValue(Head(row)) |-> "."]
          ELSE <<Head(row)>>) \o ExpandRow(Tail(row))

FileNames == <<"a", "b", "c", "d", "e", "f", "g", "h">>
RankNames == <<"1", "2", "3", "4", "5", "6", "7", "8">>
IndexOf(s, x) == IF x \in Range(s) THEN CHOOSE i \in DOMAIN s : s[i] = x ELSE 0

\* The piece on a square, "." when it is empty.
PieceAt(board, file, rank) == ExpandRow(SplitRows(board)[9 - rank])[file]

\* Whether the move named uci is a pawn's two-square advance that the layout
\* allows the side to move: the pawn on its starting rank, the two squares
\* ahead of it empty.  (No king is exposed by it in the positions of the book.)
IsDoublePawnPush(board, turn, uci) ==
    /\ Len(uci) = 4
    /\ LET f1 == IndexOf(FileNames, uci[1])
           r1 == IndexOf(RankNames, uci[2])
           f2 == IndexOf(FileNames, uci[3])
           r2 == IndexOf(RankNames, uci[4])
       IN  /\ f1 > 0 /\ f1 = f2
           /\ IF turn = "w" THEN r1 = 2 /\ r2 = 4 ELSE r1 = 7 /\ r2 = 5
           /\ PieceAt(board, f1, r1) = (IF turn = "w" THEN "P" ELSE "p")
           /\ PieceAt(board, f1, (r1 + r2) \div 2) = "."
           /\ PieceAt(board, f1, r2) = "."

-----------------------------------------------------------------------------
(* Board objects: position.copy() and new_board.push(move) *)

\* self.board is object 0.
RootObj == 0

\* new_board = position.copy(); new_board.push(move): a fresh object holding
\* the position the move leads to.  The object copied from is left alone.
CopyPushFresh(h, obj, id, move) ==
    [o \in DOMAIN h \cup {id} |-> IF o = id THEN move.to ELSE h[o]]
\* new_board = position; new_board.push(move): the move pushed onto the
\* position itself.
CopyPushInPlace(h, obj, id, move) ==
    [o \in DOMAIN h \cup {id} |-> IF o = id \/ o = obj THEN move.to ELSE h[o]]
CopyPush(h, obj, id, move) == CopyPushFresh(h, obj, id, move)

Drop(h, obj) == [o \in DOMAIN h \ {obj} |-> h[o]]

-----------------------------------------------------------------------------
(* eval_position: lines 112-190 *)

CheckCostFree == 1 - 1  \* depth, handed on as it is
CheckCost == 1          \* depth - .5
CaptureCost == 4        \* depth - 2
BoringCost == 6         \* depth - 3
BoringThreshold == 4    \* depth > 2
FallbackDepth == -2     \* eval_position(position, -1)
RootDepth == 9          \* eval_position(new_Board, 4.5)
MateScore == 10000      \* return 100
Sentinel == -100000     \* best_move = [[], -1000]

\* The deepest stack of activation records the interpreter allows.
RecursionLimit == 16

NoMove == [uci |-> <<>>, to |-> 0, capture |-> FALSE]

Frame(obj, depth, via, move, entry) ==
    [obj |-> obj, depth |-> depth, pc |-> "start",
     checks |-> <<>>, captures |-> <<>>, boring_moves |-> <<>>,
     evaluations |-> <<>>, i |-> 1,
     \* history: how the call was made, the move pushed for it and the
     \* position it was given
     via |-> via, move |-> move, entry |-> entry]

Top == stack[Len(stack)]
Pos(f) == heap[f.obj]
Running == stack # <<>>

\* The classification loop, lines 159-165.
SelectMoves(moves, Keep(_)) ==
    LET RECURSIVE Sel(_)
        Sel(i) == IF i > Len(moves) THEN <<>>
                  ELSE (IF Keep(moves[i]) THEN <<moves[i]>> ELSE <<>>) \o Sel(i + 1)
    IN  Sel(1)

IsCheckMove(m) == gives_check(m)
IsCaptureMoveIf(m) == is_capture(m)
IsCaptureMove(m) == ~gives_check(m) /\ is_capture(m)
IsBoringMove(m) == ~gives_check(m) /\ ~is_capture(m)

\* return value: the frame is popped and the value handed to the caller,
\* which appends it to its evaluations (eval_position) or compares it
\* (next_move); a direct call leaves it in result.
Return(v) ==
    LET n == Len(stack)
        f == stack[n]
        h == IF f.via = "fallback" \/ f.obj = RootObj THEN heap ELSE Drop(heap, f.obj)
    IN  /\ heap' = h
        /\ UNCHANGED <<layout, legal, rootFen, nextId, query>>
        /\ IF n > 1
           THEN /\ stack' = [SubSeq(stack, 1, n - 1) EXCEPT
                                ![n - 1].evaluations = Append(@, v),
                                ![n - 1].i = @ + 1]
                /\ UNCHANGED <<nm, result, log>>
           ELSE /\ stack' = <<>>
                /\ IF nm.pc = "call"
                   THEN /\ nm' = [nm EXCEPT !.evaluation = v, !.pc = "compare"]
                        /\ log' = Append(log, [move |-> nm.possible_moves[nm.i],
                                               depth |-> f.depth, pos |-> f.entry,
                                               value |-> v])
                        /\ UNCHANGED result
                   ELSE /\ result' = Returned(v)
                        /\ UNCHANGED <<nm, log>>

\* An exception unwinds every activation record; nothing catches it.
Raise(e) ==
    /\ stack' = <<>>
    /\ result' = Raised(e)
    /\ nm' = IF nm.pc = "call" THEN [nm EXCEPT !.pc = "raised"] ELSE nm
    /\ UNCHANGED <<layout, legal, rootFen, heap, nextId, query, log>>

CheckmateValueSwapped(turn) == IF turn = WHITE THEN MateScore ELSE -MateScore
\* lines 116-119
CheckmateValue(turn) == IF turn = WHITE THEN -MateScore ELSE MateScore

\* lines 115-119
ReturnCheckmate ==
    /\ Running /\ Top.pc = "start"
    /\ is_checkmate(Pos(Top))
    /\ Return(CheckmateValue(Turn(Pos(Top))))

\* lines 120-121
ReturnInsufficient ==
    /\ Running /\ Top.pc = "start"
    /\ ~is_checkmate(Pos(Top))
    /\ is_insufficient_material(Pos(Top))
    /\ Return(0)

\* lines 122-123
ReturnStalemate ==
    /\ Running /\ Top.pc = "start"
    /\ ~is_checkmate(Pos(Top))
    /\ ~is_insufficient_material(Pos(Top))
    /\ is_stalemate(Pos(Top))
    /\ Return(0)

IsTerminal(p) == is_checkmate(p) \/ is_insufficient_material(p) \/ is_stalemate(p)

BaseCaseStrict(depth) == depth < 0
\* line 126
BaseCase(depth) == depth <= 0

\* lines 126-152
ReturnStatic ==
    /\ Running /\ Top.pc = "start"
    /\ ~IsTerminal(Pos(Top))
    /\ BaseCase(Top.depth)
    /\ Return(StaticEval(layout[Pos(Top)]))

\* lines 156-165
Classify ==
    /\ Running /\ Top.pc = "start"
    /\ ~IsTerminal(Pos(Top))
    /\ ~BaseCase(Top.depth)
    /\ stack' = [stack EXCEPT ![Len(stack)] =
           [@ EXCEPT !.pc = "checks", !.i = 1,
                     !.checks = SelectMoves(legal[Pos(Top)], IsCheckMove),
                     !.captures = SelectMoves(legal[Pos(Top)], IsCaptureMove),
                     !.boring_moves = SelectMoves(legal[Pos(Top)], IsBoringMove)]]
    /\ UNCHANGED <<layout, legal, rootFen, heap, nextId, nm, query, result, log>>

\* A recursive call on a copy of the position with the move pushed.
Expand(move, depth, via) ==
    IF Len(stack) >= RecursionLimit THEN Raise("RecursionError")
    ELSE /\ heap' = CopyPush(heap, Top.obj, nextId, move)
         /\ nextId' = nextId + 1
         /\ stack' = Append(stack, Frame(nextId, depth, via, move, heap'[nextId]))
         /\ UNCHANGED <<layout, legal, rootFen, nm, query, result, log>>

\* line 178
ExpandsBoring(depth) == depth > BoringThreshold

FallbackNever(f) == FALSE
\* lines 183-184: the else branch has its one call to make
FallbackDue(f) == ~ExpandsBoring(f.depth) /\ f.i = 1

\* lines 169-172
ExpandCheck ==
    /\ Running /\ Top.pc = "checks"
    /\ Top.i <= Len(Top.checks)
    /\ Expand(Top.checks[Top.i], Top.depth - CheckCost, "check")

\* lines 173-176
ExpandCapture ==
    /\ Running /\ Top.pc = "captures"
    /\ Top.i <= Len(Top.captures)
    /\ Expand(Top.captures[Top.i], Top.depth - CaptureCost, "capture")

\* lines 178-182
ExpandBoring ==
    /\ Running /\ Top.pc = "boring"
    /\ ExpandsBoring(Top.depth)
    /\ Top.i <= Len(Top.boring_moves)
    /\ Expand(Top.boring_moves[Top.i], Top.depth - BoringCost, "boring")

\* lines 183-184: the call on the position itself, no copy and no move
StaticFallback ==
    /\ Running /\ Top.pc = "boring"
    /\ FallbackDue(Top)
    /\ IF Len(stack) >= RecursionLimit THEN Raise("RecursionError")
       ELSE /\ stack' = Append(stack, Frame(Top.obj, FallbackDepth, "fallback",
                                            NoMove, Pos(Top)))
            /\ UNCHANGED <<layout, legal, rootFen, heap, nextId, nm, query,
                           result, log>>

\* The end of one of the three loops.
LoopDone(f) ==
    CASE f.pc = "checks" -> f.i > Len(f.checks)
      [] f.pc = "captures" -> f.i > Len(f.captures)
      [] f.pc = "boring" -> IF ExpandsBoring(f.depth)
                            THEN f.i > Len(f.boring_moves) ELSE ~FallbackDue(f)
      [] OTHER -> FALSE

NextLoop ==
    /\ Running /\ LoopDone(Top)
    /\ stack' = [stack EXCEPT ![Len(stack)] =
           [@ EXCEPT !.i = 1,
                     !.pc = CASE Top.pc = "checks" -> "captures"
                              [] Top.pc = "captures" -> "boring"
                              [] Top.pc = "boring" -> "aggregate"]]
    /\ UNCHANGED <<layout, legal, rootFen, heap, nextId, nm, query, result, log>>

\* lines 187-190.  np.max and np.min raise ValueError on an empty list.
Aggregate ==
    /\ Running /\ Top.pc = "aggregate"
    /\ IF Top.evaluations = <<>>
       THEN Raise("ValueError")
       ELSE Return(IF Turn(Pos(Top)) = WHITE THEN SeqMax(Top.evaluations)
                                             ELSE SeqMin(Top.evaluations))

-----------------------------------------------------------------------------
(* next_move: lines 65-109 *)

StartFen == <<StartLayout, "w", "KQkq", "-", 0, 1>>
KingsPawnFen == <<KingsPawnLayout, "b", "KQkq", "-", 0, 1>>
QueensPawnFen == <<QueensPawnLayout, "b", "KQkq", "-", 0, 1>>

\* self.board.fen()
BoardFen == Fen(heap[RootObj], rootFen)

FenEqualsFields(fen, book) == SubSeq(fen, 1, 4) = SubSeq(book, 1, 4)
\* The comparison of lines 77, 79 and 81: the whole FEN string.
FenEquals(fen, book) == fen = book

\* lines 77-82: the reply of the book, None when the position is not in it
BookReply(fen) ==
    IF FenEquals(fen, StartFen) THEN <<"d", "2", "d", "4">>
    ELSE IF FenEquals(fen, KingsPawnFen) THEN <<"e", "7", "e", "5">>
    ELSE IF FenEquals(fen, QueensPawnFen) THEN <<"d", "7", "d", "5">>
    ELSE <<>>

Idle == [pc |-> "idle", possible_moves |-> <<>>, i |-> 1,
         best_move |-> [moves |-> <<>>, score |-> Sentinel], evaluation |-> 0]

\* lines 77-82
NextMoveBook ==
    /\ nm.pc = "idle" /\ ~Running /\ result = None
    /\ BookReply(BoardFen) # <<>>
    /\ result' = Returned(BookReply(BoardFen))
    /\ nm' = [nm EXCEPT !.pc = "done"]
    /\ UNCHANGED <<layout, legal, rootFen, heap, nextId, stack, query, log>>

\* lines 84-86
NextMoveBegin ==
    /\ nm.pc = "idle" /\ ~Running /\ result = None
    /\ BookReply(BoardFen) = <<>>
    /\ nm' = [Idle EXCEPT !.pc = "loop", !.possible_moves = legal[heap[RootObj]]]
    /\ UNCHANGED <<layout, legal, rootFen, heap, nextId, stack, query, result, log>>

\* lines 89-94
RootExpand ==
    /\ nm.pc = "loop" /\ nm.i <= Len(nm.possible_moves)
    /\ heap' = CopyPush(heap, RootObj, nextId, nm.possible_moves[nm.i])
    /\ nextId' = nextId + 1
    /\ stack' = <<Frame(nextId, RootDepth, "root", nm.possible_moves[nm.i],
                        heap'[nextId])>>
    /\ nm' = [nm EXCEPT !.pc = "call"]
    /\ UNCHANGED <<layout, legal, rootFen, query, result, log>>

RelativeSame(turn, evaluation) == evaluation
\* lines 97-98
Relative(turn, evaluation) == IF turn = BLACK THEN evaluation * (-1) ELSE evaluation

\* lines 101-104
Better(evaluation, best) == evaluation > best

UpdateBest(best_move, move, evaluation) ==
    IF Better(evaluation, best_move.score)
    THEN [moves |-> <<move>>, score |-> evaluation]
    ELSE IF evaluation = best_move.score
         THEN [best_move EXCEPT !.moves = Append(@, move)]
         ELSE best_move

\* lines 97-104
RootCompare ==
    /\ nm.pc = "compare"
    /\ LET evaluation == Relative(Turn(heap[RootObj]), nm.evaluation)
       IN  nm' = [nm EXCEPT !.evaluation = evaluation,
                            !.best_move = UpdateBest(@, nm.possible_moves[nm.i],
                                                     evaluation),
                            !.i = @ + 1, !.pc = "loop"]
    /\ UNCHANGED <<layout, legal, rootFen, heap, nextId, stack, query, result, log>>

\* lines 107-109: random.choice
Choose ==
    /\ nm.pc = "loop" /\ nm.i > Len(nm.possible_moves)
    /\ \E k \in DOMAIN nm.best_move.moves :
           result' = Returned(nm.best_move.moves[k].uci)
    /\ nm' = [nm EXCEPT !.pc = "done"]
    /\ UNCHANGED <<layout, legal, rootFen, heap, nextId, stack, query, log>>

-----------------------------------------------------------------------------
(* The arenas and the specifications *)

\* The most legal moves an arena holds in all, outside the bare-king positions.
MaxEdges == 3

Edges == UNION {{<<p, k>> : k \in DOMAIN CandidateMoves(p)} :
                   p \in {q \in Positions : q <= 4}}

RECURSIVE UpTo(_, _)
UpTo(S, n) ==
    IF n = 0 THEN {{}}
    ELSE LET T == UpTo(S, n - 1) IN T \cup {t \cup {e} : t \in T, e \in S}

ArenaOf(E) ==
    [p \in Positions |->
        IF p > 4 THEN CandidateMoves(p)
        ELSE SelectMoves(CandidateMoves(p),
                         LAMBDA m : \E e \in E : e[1] = p /\ CandidateMoves(p)[e[2]] = m)]

Arenas == {ArenaOf(E) : E \in UpTo(Edges, MaxEdges)}

PlainFen == <<"-", "-", 0, 1>>

InitCommon ==
    /\ nextId = 1
    /\ query = None
    /\ result = None
    /\ log = <<>>

\* next_move on a position of an arena that is not over.
Init ==
    /\ layout = ArenaLayout
    /\ legal \in Arenas
    /\ rootFen = PlainFen
    /\ \E root \in Positions :
          /\ ~IsTerminal(root)
          /\ heap = [o \in {RootObj} |-> root]
    /\ stack = <<>>
    /\ nm = Idle
    /\ InitCommon

EvalNext ==
    \/ ReturnCheckmate
    \/ ReturnInsufficient
    \/ ReturnStalemate
    \/ ReturnStatic
    \/ Classify
    \/ ExpandCheck
    \/ ExpandCapture
    \/ ExpandBoring
    \/ StaticFallback
    \/ NextLoop
    \/ Aggregate

Next ==
    \/ NextMoveBegin
    \/ RootExpand
    \/ RootCompare
    \/ Choose
    \/ EvalNext

Spec == Init /\ [][Next]_vars

-----------------------------------------------------------------------------
(* check_move_is_legal: lines 50-63 *)

SquareNames == {<<FileNames[f], RankNames[r]>> : f \in 1..8, r \in 1..8}
PromotionSymbols == {"p", "n", "b", "r", "q", "k"}

\* chess.Move.from_uci: the move named, or raised when it raises
\* InvalidMoveError.
from_uci(uci) ==
    IF uci = <<"0", "0", "0", "0">> THEN [raised |-> FALSE, null |-> TRUE]
    ELSE IF Len(uci) = 4 /\ uci[2] = "@"
    THEN IF uci[1] \in PromotionSymbols \cup {"P", "N", "B", "R", "Q", "K"}
            /\ SubSeq(uci, 3, 4) \in SquareNames
         THEN [raised |-> FALSE, null |-> FALSE, uci |-> uci]
         ELSE [raised |-> TRUE]
    ELSE IF Len(uci) = 4 \/ Len(uci) = 5
    THEN IF /\ SubSeq(uci, 1, 2) \in SquareNames
            /\ SubSeq(uci, 3, 4) \in SquareNames
            /\ Len(uci) = 5 => uci[5] \in PromotionSymbols
            /\ SubSeq(uci, 1, 2) # SubSeq(uci, 3, 4)
         THEN [raised |-> FALSE, null |-> FALSE, uci |-> uci]
         ELSE [raised |-> TRUE]
    ELSE [raised |-> TRUE]

\* move in self.board.legal_moves
InLegalMoves(move, p) ==
    /\ ~move.null
    /\ \E k \in DOMAIN legal[p] : legal[p][k].uci = move.uci

\* line 63
check_move_is_legal(initial_position, new_position) ==
    LET move == from_uci(initial_position \o new_position)
    IN  IF move.raised THEN Raised("InvalidMoveError")
        ELSE Returned(InLegalMoves(move, heap[RootObj]))

\* The coordinate strings a caller passes.
QueryStrings ==
    {<<>>, <<"a">>, <<"0", "0">>, <<"z", "9">>, <<"b", "9">>, <<"b", "1", "q">>,
     <<"b", "1">>, <<"b", "3">>, <<"b", "2">>, <<"b", "4">>, <<"d", "1">>,
     <<"d", "3">>, <<"d", "3", "q">>, <<"B", "@">>, <<"b", "1", "b", "3">>}

CheckMoveIsLegal ==
    /\ query = None /\ nm.pc = "idle" /\ ~Running
    /\ \E initial_position \in QueryStrings, new_position \in QueryStrings :
          /\ query' = [kind |-> "call", initial_position |-> initial_position,
                       new_position |-> new_position]
          /\ result' = check_move_is_legal(initial_position, new_position)
    /\ UNCHANGED <<layout, legal, rootFen, heap, nextId, stack, nm, log>>

\* The legality query on a position of an arena with at most one move.
InitLegal ==
    /\ layout = ArenaLayout
    /\ legal \in {ArenaOf(E) : E \in UpTo(Edges, 1)}
    /\ rootFen = PlainFen
    /\ \E root \in {p \in Positions : p <= 4} : heap = [o \in {RootObj} |-> root]
    /\ stack = <<>>
    /\ nm = Idle
    /\ InitCommon

SpecLegal == InitLegal /\ [][CheckMoveIsLegal]_vars

-----------------------------------------------------------------------------
(* eval_position called directly, with any depth *)

\* The largest depth a direct call is given, in halves.
MaxBudget == 10
\* The most moves of the arenas a direct call is checked on.
MaxSearchEdges == 2

InitSearch ==
    /\ layout = ArenaLayout
    /\ legal \in {ArenaOf(E) : E \in UpTo(Edges, MaxSearchEdges)}
    /\ rootFen = PlainFen
    /\ nextId = 1 /\ query = None /\ result = None
    /\ nm = [Idle EXCEPT !.pc = "direct"]
    /\ \E root \in Positions, depth \in (FallbackDepth - 1)..MaxBudget :
          /\ heap = [o \in {RootObj} |-> root]
          /\ stack = <<Frame(RootObj, depth, "direct", NoMove, root)>>
          /\ log = <<[move |-> None, depth |-> depth, pos |-> root, value |-> None]>>

SpecSearch == InitSearch /\ [][EvalNext]_vars

-----------------------------------------------------------------------------
(* The static evaluation of a layout: eval_position with no depth left *)

PawnRanks == {2, 3, 4, 5, 6, 7}

\* A layout with the two kings, at most one pawn a side (0: none) and at
\* most one more piece a side ("": none).
LayoutOf(wp, bp, wx, bx) ==
    JoinRows([i \in 1..8 |->
        LET rank == 9 - i IN
        IF rank = 8 THEN (IF bx = "" THEN <<"4", "k", "3">> ELSE <<bx, "3", "k", "3">>)
        ELSE IF rank = 1
        THEN (IF wx = "" THEN <<"4", "K", "3">> ELSE <<wx, "3", "K", "3">>)
        ELSE IF rank = wp /\ rank = bp THEN <<"P", "p", "6">>
        ELSE IF rank = wp THEN <<"P", "7">>
        ELSE IF rank = bp THEN <<"1", "p", "6">>
        ELSE E8])

Layouts ==
    {LayoutOf(wp, bp, wx, bx) :
        wp \in PawnRanks \cup {0}, bp \in PawnRanks \cup {0},
        wx \in {"", "N", "R", "Q"}, bx \in {"", "n", "r", "q"}}

OneMoveArena ==
    [p \in Positions |->
        IF p = 3 THEN <<MoveTo(4, FALSE)>>
        ELSE IF p > 4 THEN CandidateMoves(p) ELSE <<>>]

InitStatic ==
    /\ \E board \in Layouts : layout = [ArenaLayout EXCEPT ![3] = board]
    /\ legal = OneMoveArena
    /\ rootFen = PlainFen
    /\ nextId = 1 /\ query = None /\ result = None
    /\ nm = [Idle EXCEPT !.pc = "direct"]
    /\ heap = [o \in {RootObj} |-> 3]
    /\ \E depth \in {0, FallbackDepth} :
          /\ stack = <<Frame(RootObj, depth, "direct", NoMove, 3)>>
          /\ log = <<[move |-> None, depth |-> depth, pos |-> 3, value |-> None]>>

StaticNext == ReturnStatic \/ ReturnInsufficient

SpecStatic == InitStatic /\ [][StaticNext]_vars

-----------------------------------------------------------------------------
(* next_move on the positions of the book and their near misses *)

\* The largest fullmove number of a root FEN.
MaxMoveNumber == 3

BookArenas ==
    { [p \in Positions |->
         CASE p = 3 -> <<MoveTo(2, FALSE), MoveTo(4, FALSE), MoveTo(6, TRUE)>>
           [] p > 4 -> CandidateMoves(p)
           [] OTHER -> <<>>],
      [p \in Positions |->
         CASE p = 3 -> <<MoveTo(2, TRUE), MoveTo(4, FALSE)>>
           [] p = 4 -> <<MoveTo(1, FALSE), MoveTo(3, FALSE), MoveTo(5, TRUE)>>
           [] p = 2 -> <<MoveTo(3, FALSE)>>
           [] p > 4 -> CandidateMoves(p)
           [] OTHER -> <<>>] }

\* The root is a position of the book or another one, with White or Black
\* to move.  A layout of the book comes back only once both sides have moved
\* pieces out and home again, so at an odd fullmove number; the halfmove
\* clock then counts the plies since the start when White is to move and is
\* 0 when Black is, White's pawn having just moved.
InitBook ==
    /\ legal \in BookArenas
    /\ \E root \in {3, 4} :
          /\ legal[root] # <<>>
          /\ heap = [o \in {RootObj} |-> root]
          /\ \E board \in {StartLayout, KingsPawnLayout, QueensPawnLayout,
                            ArenaLayout[root]} :
                layout = [ArenaLayout EXCEPT ![root] = board]
          /\ \E castling \in {"KQkq", "Qkq"}, ep \in {"-", "e3"},
                fullmove \in {m \in 1..MaxMoveNumber : m % 2 = 1} :
                rootFen = <<castling, ep,
                            IF Turn(root) = WHITE THEN 2 * (fullmove - 1) ELSE 0,
                            fullmove>>
    /\ stack = <<>>
    /\ nm = Idle
    /\ InitCommon

BookNext == NextMoveBook \/ Next

SpecBook == InitBook /\ [][BookNext]_vars

-----------------------------------------------------------------------------
(* The claims *)

Root == heap[RootObj]

\* The score of the k-th call next_move made, as the side to move at the
\* root counts it.
RelativeScore(k) == IF Turn(Root) = BLACK THEN 0 - log[k].value ELSE log[k].value
TiedBest ==
    {k \in DOMAIN log : \A j \in DOMAIN log : RelativeScore(j) <= RelativeScore(k)}

\* C1: when next_move has returned on a position outside the book, it has
\* called eval_position exactly once for every legal root move, in order, on
\* the position the move leads to and with depth 4.5; the moves it chose among
\* are exactly those whose score, negated when Black is to move, is the
\* greatest; the move returned is one of them, and is the only legal move
\* when there is only one.
C1_SelectsTiedBest ==
    nm.pc = "done" =>
        /\ Len(log) = Len(legal[Root])
        /\ \A k \in DOMAIN log :
              /\ log[k].move = legal[Root][k]
              /\ log[k].pos = legal[Root][k].to
              /\ log[k].depth = 9
        /\ Range(nm.best_move.moves) = {legal[Root][k] : k \in TiedBest}
        /\ result.kind = "return"
        /\ \E k \in TiedBest : result.value = legal[Root][k].uci
        /\ Len(legal[Root]) = 1 => result.value = legal[Root][1].uci

C1_Witness ==
    /\ nm.pc = "done"
    /\ Turn(Root) = BLACK
    /\ Len(legal[Root]) = 3
    /\ Cardinality(TiedBest) = 2

\* The most legal moves a position of the arena has.
Widest ==
    LET n == {Len(legal[p]) : p \in Positions}
    IN  CHOOSE m \in n : \A x \in n : x <= m

\* A bound on the steps a call with the depth d takes, its recursive calls
\* included: one step when no depth is left, and otherwise its own five steps
\* and, for each move and for the call on the unchanged position, the step
\* that makes the call and the call itself, whose depth is lower by a half
\* at the least.
RECURSIVE Work(_)
Work(d) == IF d <= 0 THEN 1 ELSE 5 + (Widest + 1) * (1 + Work(d - 1))

\* The steps the k-th activation record has left, those of the call it is
\* waiting for not included.
Remaining(k) ==
    LET f == stack[k]
        d == f.depth
        waiting == IF k < Len(stack) THEN 1 ELSE 0
        left(moves) == Len(moves) - f.i + 1 - waiting
        checks(n) == n * (1 + Work(d - 1))
        captures(n) == n * (1 + Work(d - 4))
        quiet(n) == n * (1 + Work(d - 6))
        last == IF d > 4 THEN quiet(Len(f.boring_moves)) ELSE 1 + Work(-2)
    IN  CASE f.pc = "start" -> Work(d)
          [] f.pc = "checks" ->
                checks(left(f.checks)) + captures(Len(f.captures)) + last + 4
          [] f.pc = "captures" -> captures(left(f.captures)) + last + 3
          [] f.pc = "boring" ->
                (IF d > 4 THEN quiet(left(f.boring_moves))
                 ELSE (2 - f.i - waiting) * (1 + Work(-2))) + 2
          [] f.pc = "aggregate" -> 1

RECURSIVE StepsLeftFrom(_)
StepsLeftFrom(k) == IF k > Len(stack) THEN 0 ELSE Remaining(k) + StepsLeftFrom(k + 1)
StepsLeft == StepsLeftFrom(1)

\* C2: eval_position always terminates.  Every step of a call, direct and
\* recursive ones alike, on any position and with any depth, strictly lowers
\* a natural number, the bound StepsLeft on the steps still to come: a check
\* lowers the depth by 0.5, a capture by 2, a quiet move by 3, and the call
\* on the unchanged position has depth -1 and returns in one step.  No call
\* ends in an exception.
C2_Terminates ==
    [][ /\ StepsLeft' < StepsLeft
        /\ StepsLeft' >= 0
        /\ result'.kind # "raise" ]_vars

C2_Witness ==
    /\ ~Running /\ result.kind = "return"
    /\ log[1].depth = MaxBudget
    /\ nextId > MaxBudget

\* C3: a direct call of eval_position on a checkmated position returns -100
\* when White is to move and 100 when Black is, and on a stalemate or a
\* position of insufficient material returns 0, whatever the depth; it does
\* so in its first step, with no move enumerated and no board copied.
C3_TerminalPriority ==
    LET p == log[1].pos
        expected == IF is_checkmate(p)
                    THEN (IF Turn(p) = WHITE THEN -10000 ELSE 10000) ELSE 0
    IN  IsTerminal(p) =>
            /\ Running => Len(stack) = 1 /\ stack[1].pc = "start"
            /\ ~Running => result = Returned(expected)
            /\ nextId = 1

C3_Witness ==
    /\ ~Running
    /\ is_checkmate(log[1].pos) /\ Turn(log[1].pos) = WHITE
    /\ log[1].depth > 0
    /\ result = Returned(-10000)

\* The colour-reversed mirror of a layout: every piece given to the other
\* side and rank r turned into rank 9 - r.
SwapColour(c) ==
    CASE c = "P" -> "p" [] c = "N" -> "n" [] c = "B" -> "b" [] c = "R" -> "r"
      [] c = "Q" -> "q" [] c = "K" -> "k"
      [] c = "p" -> "P" [] c = "n" -> "N" [] c = "b" -> "B" [] c = "r" -> "R"
      [] c = "q" -> "Q" [] c = "k" -> "K"
      [] OTHER -> c

Mirror(board) ==
    LET rows == SplitRows(board)
    IN  JoinRows([i \in 1..Len(rows) |->
            [j \in 1..Len(rows[Len(rows) + 1 - i]) |->
                SwapColour(rows[Len(rows) + 1 - i][j])]])

\* C4: the static evaluation of a layout that is not terminal and the static
\* evaluation of its colour-reversed mirror are each other's negation.
C4_MirrorNegates ==
    (~Running /\ result.kind = "return" /\ ~is_insufficient_material(Root)) =>
        StaticEval(Mirror(layout[Root])) = 0 - result.value

\* C5: check_move_is_legal returns a boolean for every pair of coordinate
\* strings, malformed ones included, and returns true exactly when the two
\* together name a legal move of the current position.
C5_TotalQuery ==
    query.kind = "call" =>
        /\ result.kind = "return"
        /\ result.value =
              (\E k \in DOMAIN legal[Root] :
                  legal[Root][k].uci = query.initial_position \o query.new_position)

BookFens == {StartFen, KingsPawnFen, QueensPawnFen}
ExpectedReply(fen) ==
    CASE fen[1] = StartLayout -> <<"d", "2", "d", "4">>
      [] fen[1] = KingsPawnLayout -> <<"e", "7", "e", "5">>
      [] fen[1] = QueensPawnLayout -> <<"d", "7", "d", "5">>

\* C7 as claimed: whenever the layout, side to move, castling rights and
\* en-passant state of the root match a position of the book, next_move
\* returns the book's reply with no search.
C7_FourFieldsMatch ==
    (nm.pc = "done" /\ \E b \in BookFens : SubSeq(BoardFen, 1, 4) = SubSeq(b, 1, 4)) =>
        /\ result = Returned(ExpectedReply(BoardFen))
        /\ log = <<>>

\* C7 as amended: whenever the whole FEN of the root, halfmove clock 0 and
\* fullmove number 1 included, is that of the initial position, next_move
\* returns d2d4, and whenever it is that of the initial position after
\* White's king's pawn or queen's pawn two-square advance it returns e7e5 or
\* d7d5; in each case no search is made and no board copied, and the reply
\* is a pawn's two-square advance the position allows.  Every other position
\* is searched: eval_position is called for each of its legal moves.
C7_BookExact ==
    nm.pc = "done" =>
        IF BoardFen \in BookFens
        THEN /\ result = Returned(ExpectedReply(BoardFen))
             /\ IsDoublePawnPush(BoardFen[1], BoardFen[2], result.value)
             /\ log = <<>> /\ nextId = 1
        ELSE /\ log # <<>> /\ Len(log) = Len(legal[Root])
             /\ \E k \in DOMAIN legal[Root] : result = Returned(legal[Root][k].uci)

C7_Witness ==
    /\ nm.pc = "done"
    /\ BoardFen = KingsPawnFen
    /\ result = Returned(<<"e", "7", "e", "5">>)

\* The class of a move: a check first, then a capture, else a quiet move.
ClassOf(m) ==
    IF gives_check(m) THEN "check" ELSE IF is_capture(m) THEN "capture" ELSE "boring"
\* The loop of eval_position that expands the moves of a class.
LoopOf(class) ==
    CASE class = "check" -> "checks" [] class = "capture" -> "captures"
      [] class = "boring" -> "boring"
CountOf(p, classes) ==
    Cardinality({k \in DOMAIN legal[p] : ClassOf(legal[p][k]) \in classes})

\* C8: in a call on a position that is not terminal with depth d > 0, every
\* recursive call is made for a legal move of the class its loop names, on
\* the position the move leads to, with d - 0.5 for a check, d - 2 for a
\* capture that is no check and d - 3 for a quiet move, the last only when
\* d > 2; the call with depth -1 is made on the unchanged position and only
\* when d <= 2.  When the call aggregates, it has one score for every legal
\* move and no other when d > 2, and when d <= 2 one score for every check
\* and capture and one more, the static evaluation of its own position,
\* whether or not the position has a quiet move.
C8_QuietTruncation ==
    /\ \A k \in DOMAIN stack : k > 1 =>
          LET c == stack[k]
              f == stack[k - 1]
              d == f.depth
          IN  /\ d > 0 /\ ~IsTerminal(heap[f.obj])
              /\ IF c.via = "fallback"
                 THEN /\ d <= 4 /\ c.depth = -2 /\ f.pc = "boring"
                      /\ c.obj = f.obj /\ c.entry = heap[f.obj]
                 ELSE /\ c.via = ClassOf(c.move) /\ f.pc = LoopOf(c.via)
                      /\ c.move \in Range(legal[heap[f.obj]])
                      /\ c.entry = c.move.to
                      /\ c.depth = CASE c.via = "check" -> d - 1
                                     [] c.via = "capture" -> d - 4
                                     [] c.via = "boring" -> d - 6
                      /\ c.via = "boring" => d > 4
    /\ \A k \in DOMAIN stack : stack[k].pc = "aggregate" =>
          LET f == stack[k]
              p == heap[f.obj]
          IN  IF f.depth > 4
              THEN Len(f.evaluations) = Len(legal[p])
              ELSE /\ Len(f.evaluations) = CountOf(p, {"check", "capture"}) + 1
                   /\ f.evaluations[Len(f.evaluations)] = StaticEval(layout[p])

C8_Witness ==
    /\ Running /\ Top.pc = "aggregate"
    /\ Top.depth <= 4
    /\ CountOf(Pos(Top), {"boring"}) = 0
    /\ Len(Top.evaluations) = 3

\* C9: whenever a call of eval_position aggregates, its list of scores is
\* not empty.
C9_ScoresNonEmpty ==
    \A k \in DOMAIN stack : stack[k].pc = "aggregate" => stack[k].evaluations # <<>>

C9_Witness ==
    /\ Running /\ Top.pc = "aggregate"
    /\ Top.depth <= 4
    /\ CountOf(Pos(Top), {"check", "capture"}) = 0
    /\ Len(Top.evaluations) = 1

\* C6: no step changes the position a live Board object holds, self.board
\* included; every call holds the position it was given for as long as it
\* lasts; and every move is pushed onto an object made for that call, which
\* no other object or call has had before.
C6_NoMutation ==
    [][ /\ RootObj \in DOMAIN heap'
        /\ \A o \in DOMAIN heap \cap DOMAIN heap' : heap'[o] = heap[o]
        /\ \A k \in DOMAIN stack' : heap'[stack'[k].obj] = stack'[k].entry
        /\ \A k \in DOMAIN stack' :
              (k > Len(stack) /\ stack'[k].via # "fallback") =>
                  /\ stack'[k].obj \notin DOMAIN heap
                  /\ stack'[k].obj >= nextId /\ nextId' > stack'[k].obj
                  /\ stack'[k].entry = stack'[k].move.to ]_vars

C6_Witness ==
    /\ Len(stack) >= 3
    /\ Top.via = "fallback"
    /\ Cardinality({stack[k].obj : k \in DOMAIN stack}) = Len(stack) - 1

\* C10: in a run of next_move every depth handed to eval_position lies
\* between -1.5 and 4.5, a call whose depth is 0 or less makes no call, and at
\* most 9 moves are pushed below the root move.
C10_BudgetRange ==
    /\ \A k \in DOMAIN stack :
          /\ stack[k].depth >= -3 /\ stack[k].depth <= 9
          /\ stack[k].depth <= 0 => k = Len(stack) /\ stack[k].pc = "start"
    /\ Cardinality({k \in DOMAIN stack : stack[k].via # "fallback"}) <= 10

C10_Witness ==
    /\ Cardinality({k \in DOMAIN stack : stack[k].via # "fallback"}) = 10
    /\ Top.depth = 0

=============================================================================
